---------------------------- MODULE Spec2Model ----------------------------
(***************************************************************************)
(* The line-oriented console engine of CDC_Console_USB                     *)
(* (cdc_usb_platform.c) together with the two application handlers that    *)
(* main.cpp registers with it.  A C array is the sequence of its bytes     *)
(* (0..255) up to its last byte that is not 0; the C index i is position   *)
(* i+1.  Every handler is an operator from a machine record (the program's *)
(* globals, the transport's queues and a log of the calls made so far in   *)
(* the current event) to the machine record after the call.                *)
(***************************************************************************)
EXTENDS Integers, Sequences, FiniteSets, TLC

\* ------------------------------------------------------------ constants

\* #define APP_READ_BUFFER_SIZE 512
APP_READ_BUFFER_SIZE == 512
\* #define CDC_USB_LINE_TERMINATOR '\r'
CDC_USB_LINE_TERMINATOR == 13
\* #define CDC_USB_RESET_LINE_CHAR_1 7
CDC_USB_RESET_LINE_CHAR_1 == 7
\* #define CDC_USB_RESET_LINE_CHAR_2 8
CDC_USB_RESET_LINE_CHAR_2 == 8
\* #define CDC_USB_RESET_LINE_RESPONSE "\n\rReset line\r\n"
CDC_USB_RESET_LINE_RESPONSE ==
    <<10, 13, 82, 101, 115, 101, 116, 32, 108, 105, 110, 101, 13, 10>>
\* static uint8_t command_index: arithmetic on it is modulo 2^8
Uint8Modulus == 256
\* char consoleMenu[] of main.cpp
consoleMenu ==
    <<32, 32, 32, 32, 32, 32, 32, 67, 111, 110, 115, 111, 108, 101, 32, 111,
      118, 101, 114, 32, 85, 83, 66, 32, 67, 68, 67, 13, 10, 84, 121, 112,
      101, 32, 97, 32, 99, 111, 109, 109, 97, 110, 100, 32, 102, 111, 108,
      108, 111, 119, 101, 100, 32, 98, 121, 32, 91, 69, 78, 84, 69, 82, 93,
      58, 13, 10, 84, 117, 114, 110, 32, 111, 110, 32, 108, 101, 100, 13,
      10, 84, 117, 114, 110, 32, 111, 102, 102, 32, 108, 101, 100, 13, 10,
      84, 111, 103, 103, 108, 101, 32, 108, 101, 100, 13, 10, 13, 10>>

\* the commands DecodeCommand of main.cpp knows and its responses
TurnOnLed == <<84, 117, 114, 110, 32, 111, 110, 32, 108, 101, 100>>
TurnOffLed == <<84, 117, 114, 110, 32, 111, 102, 102, 32, 108, 101, 100>>
ToggleLed == <<84, 111, 103, 103, 108, 101, 32, 108, 101, 100>>
LedIsOn == <<13, 10, 108, 101, 100, 32, 105, 115, 32, 111, 110, 13, 10>>
LedIsOff == <<13, 10, 108, 101, 100, 32, 105, 115, 32, 111, 102, 102, 13, 10>>
LedIsToggled == <<13, 10, 108, 101, 100, 32, 105, 115, 32, 116, 111, 103, 103, 108, 101, 100, 13, 10>>
UnknownCommand == <<13, 10, 85, 110, 107, 110, 111, 119, 110, 32, 99, 111, 109, 109, 97, 110, 100, 13, 10>>
\* the "\r\n" DecodeCommand appends to the response
CrLf == <<13, 10>>
\* char txBuffer[256] of DecodeCommand
TxBufferSize == 256

\* NULL as a function pointer and as a char pointer
NullFn == "NULL"
NullPtr == <<-1>>
USB_DEVICE_CDC_RESULT_OK == "OK"
USB_DEVICE_CDC_RESULT_ERROR == "ERROR"
Results == {USB_DEVICE_CDC_RESULT_OK, USB_DEVICE_CDC_RESULT_ERROR}

\* --------------------------------------------------------------- bounds

\* events per behaviour
MaxEvents == 5
\* read completions that carry a long chunk, per behaviour
MaxLong == 1
\* a long chunk arrives among the first LongBy events of a behaviour
LongBy == 2
\* events per behaviour that receives long chunks
MaxEventsLong == 3
\* events per behaviour with the main loop
MaxEventsMain == 5
\* events per behaviour in which handlers are replaced
MaxEventsHandlers == 3
\* submissions the transport refuses although its queue has room, per behaviour
MaxRefusals == 1
\* transfers of one direction the transport holds at a time
QueueDepth == 2
\* length of a run of plain bytes that is longer than the reset response
LongRun == 20

\* ------------------------------------------------------------- C arrays

\* An array of bytes is the sequence of its bytes up to its last byte that is
\* not 0: every byte behind is 0, up to the array's size.  The C index i is
\* position i + 1.

Fill(n, b) == [i \in 1..n |-> b]
\* an array all of whose bytes are 0 (static storage, or = {0})
ZeroBuffer == <<>>

\* the length of s without the zeros at its end
TrimLen(s) ==
    CHOOSE n \in 0..Len(s) :
        (n = 0 \/ s[n] # 0) /\ \A j \in (n + 1)..Len(s) : s[j] = 0
Trim(s) == SubSeq(s, 1, TrimLen(s))

\* a[i]
At(a, i) == IF i < Len(a) THEN a[i + 1] ELSE 0

\* a[i] = v
Put(a, i, v) ==
    IF i < Len(a)
    THEN IF v = 0 /\ i = Len(a) - 1 THEN Trim(SubSeq(a, 1, i))
         ELSE [a EXCEPT ![i + 1] = v]
    ELSE IF v = 0 THEN a
    ELSE a \o Fill(i - Len(a), 0) \o <<v>>

Max(a, b) == IF a >= b THEN a ELSE b

\* commandBuffer[i] = v; top is the largest index of commandBuffer written in
\* the current event
Store(m, i, v) ==
    [m EXCEPT !.commandBuffer = Put(@, i, v), !.top = Max(@, i)]

\* whether the array a of size bytes holds a NUL
Terminated(a, size) == Len(a) < size \/ \E j \in 1..Len(a) : a[j] = 0

\* the C index of the first NUL of the array a
FirstNul(a) ==
    IF \E j \in 1..Len(a) : a[j] = 0
    THEN (CHOOSE j \in 1..Len(a) : a[j] = 0 /\ \A k \in 1..(j - 1) : a[k] # 0) - 1
    ELSE Len(a)

\* the bytes "%s" and strlen read from the array a of size bytes: up to its
\* first NUL, and when it holds none, on through the memory behind it (junk)
\* to a NUL there
CStr(a, size, junk) ==
    IF Terminated(a, size) THEN SubSeq(a, 1, FirstNul(a)) ELSE a \o junk

\* a sprintf that writes the bytes of str and no NUL behind them
SprintfUnterminated(dst, str) ==
    IF Len(dst) > Len(str) THEN str \o SubSeq(dst, Len(str) + 1, Len(dst)) ELSE str

\* sprintf(dst, "%s", str) into an array of APP_READ_BUFFER_SIZE bytes: the
\* bytes of str and a NUL; what does not fit the array is written behind it
Sprintf(dst, str) ==
    IF Len(str) >= APP_READ_BUFFER_SIZE THEN SubSeq(str, 1, APP_READ_BUFFER_SIZE)
    ELSE IF Len(dst) > Len(str) + 1
    THEN str \o <<0>> \o SubSeq(dst, Len(str) + 2, Len(dst))
    ELSE str

\* ---------------------------------------------------------------- state

VARIABLES
    usbState,               \* cdc_usb_t usbState (the fields the engine uses)
    cdcReadBuffer,          \* uint8_t cdcReadBuffer[APP_READ_BUFFER_SIZE]
    cdcWriteBuffer,         \* uint8_t cdcWriteBuffer[APP_READ_BUFFER_SIZE]
    commandBuffer,          \* char commandBuffer[APP_READ_BUFFER_SIZE]
    command_index,          \* static uint8_t command_index
    return_line_callback,   \* static void (*return_line_callback)(char*)
    console_ready_callback, \* static void (*console_ready_callback)(void)
    commandAvailable,       \* bool commandAvailable (main.cpp)
    command,                \* char command[APP_READ_BUFFER_SIZE] (main.cpp)
    readsQueued,            \* transport: reads accepted and not yet completed
    writesQueued,           \* transport: writes accepted and not yet completed
    fault,                  \* an access outside an object has happened
    accepted,               \* plain bytes received since the buffer was last cleared
    armed,                  \* a first read was accepted since the session was configured
    delivered,              \* the non-empty lines handed to ReadLine so far, in order
    decoded,                \* the commands the main loop passed to DecodeCommand so far
    nEvents,                \* events so far
    nLong,                  \* read completions with a long chunk so far
    nRefused,               \* submissions refused with room in the queue so far
    ev                      \* the last event: its inputs, the state before it, its calls

vars == <<usbState, cdcReadBuffer, cdcWriteBuffer, commandBuffer, command_index,
          return_line_callback, console_ready_callback, commandAvailable, command,
          readsQueued, writesQueued, fault, accepted, armed, delivered, decoded,
          nEvents, nLong, nRefused, ev>>

\* the globals, the transport's queues and the calls logged during one event
Machine ==
    [usbState |-> usbState, cdcReadBuffer |-> cdcReadBuffer,
     cdcWriteBuffer |-> cdcWriteBuffer, commandBuffer |-> commandBuffer,
     command_index |-> command_index,
     return_line_callback |-> return_line_callback,
     console_ready_callback |-> console_ready_callback,
     commandAvailable |-> commandAvailable, command |-> command,
     readsQueued |-> readsQueued, writesQueued |-> writesQueued, fault |-> fault,
     reads |-> 0, writes |-> <<>>, lines |-> <<>>, ready |-> 0, top |-> -1, calls |-> <<>>, ret |-> "void"]

\* an event's inputs: its kind, the chunk and status of a read completion, the
\* argument of cdc_usb_write, and what the transport answers a read and a write
\* submitted during the event (readRoom, writeRoom: its queue has room then)
Input(kind, chunk, status, data, rres, wres) ==
    [kind |-> kind, chunk |-> chunk, status |-> status, data |-> data,
     rres |-> rres, wres |-> wres, handler |-> NullFn,
     readRoom |-> (IF kind = "read_complete" THEN readsQueued - 1 ELSE readsQueued)
                      < QueueDepth,
     writeRoom |-> writesQueued < QueueDepth]

\* the state an event started from, as far as the claims refer to it
Before ==
    [isConfigured |-> usbState.isConfigured,
     isWriteComplete |-> usbState.isWriteComplete,
     commandBuffer |-> commandBuffer,
     command_index |-> command_index,
     return_line_callback |-> return_line_callback,
     console_ready_callback |-> console_ready_callback,
     readsQueued |-> readsQueued, writesQueued |-> writesQueued,
     accepted |-> accepted, armed |-> armed]

\* the submissions of an event that the transport refused with room in its queue
Refusals(m, in) ==
    (IF m.reads > 0 /\ in.rres = USB_DEVICE_CDC_RESULT_ERROR /\ in.readRoom
     THEN 1 ELSE 0)
    + (IF m.writes # <<>> /\ in.wres = USB_DEVICE_CDC_RESULT_ERROR /\ in.writeRoom
       THEN 1 ELSE 0)

\* the machine after an event becomes the next state; ev records what happened
Commit(m, in) ==
    /\ usbState' = m.usbState
    /\ cdcReadBuffer' = m.cdcReadBuffer
    /\ cdcWriteBuffer' = m.cdcWriteBuffer
    /\ commandBuffer' = m.commandBuffer
    /\ command_index' = m.command_index
    /\ return_line_callback' = m.return_line_callback
    /\ console_ready_callback' = m.console_ready_callback
    /\ commandAvailable' = m.commandAvailable
    /\ command' = m.command
    /\ readsQueued' = m.readsQueued
    /\ writesQueued' = m.writesQueued
    /\ fault' = m.fault
    /\ delivered' = delivered \o (IF return_line_callback = "ReadLine"
                                   THEN SelectSeq(m.lines, LAMBDA l : l # <<>>)
                                   ELSE <<>>)
    /\ decoded' = (IF in.kind = "main_loop" /\ in.data # NullPtr
                   THEN Append(decoded, CStr(in.data, APP_READ_BUFFER_SIZE, <<>>))
                   ELSE decoded)
    /\ nRefused' = nRefused + Refusals(m, in)
    /\ nEvents' = nEvents + 1
    /\ ev' = [kind |-> in.kind, chunk |-> in.chunk, status |-> in.status,
              data |-> in.data, rres |-> in.rres, wres |-> in.wres,
              prev |-> ev.kind, before |-> Before,
              reads |-> m.reads, writes |-> m.writes, lines |-> m.lines,
              ready |-> m.ready, top |-> m.top, calls |-> m.calls,
              handler |-> in.handler, ret |-> m.ret]

\* ------------------------------------------------------------ transport

\* USB_DEVICE_CDC_Read(index, &handle, buffer, size): result is what the
\* transport answers; an accepted read is queued until its completion event
USB_DEVICE_CDC_Read(m, result) ==
    [m EXCEPT !.reads = @ + 1, !.calls = Append(@, "USB_DEVICE_CDC_Read"),
              !.readsQueued = IF result = USB_DEVICE_CDC_RESULT_OK THEN @ + 1 ELSE @]

\* USB_DEVICE_CDC_Write(index, &handle, buffer, length, flags)
USB_DEVICE_CDC_Write(m, bytes, result) ==
    [m EXCEPT !.writes = Append(@, bytes),
              !.calls = Append(@, "USB_DEVICE_CDC_Write"),
              !.writesQueued = IF result = USB_DEVICE_CDC_RESULT_OK THEN @ + 1 ELSE @]

\* the results the transport can give a submission: it refuses when its
\* queue is full, and may refuse for reasons of its own
Answers(queued) ==
    IF queued >= QueueDepth THEN {USB_DEVICE_CDC_RESULT_ERROR}
    ELSE IF nRefused < MaxRefusals THEN Results
    ELSE {USB_DEVICE_CDC_RESULT_OK}

\* what lies in memory behind an unterminated array, up to the next NUL:
\* nothing, a plain byte, or a byte that equals the terminator
JunkChoices == {<<>>, <<170>>, <<CDC_USB_LINE_TERMINATOR>>}

\* a C bool as it is logged
Bool(b) == IF b THEN "true" ELSE "false"

\* ------------------------------------------------------------ the engine

\* a cdc_usb_write that does not look at isWriteComplete
cdc_usb_write_ungated(m, data, size, wres, junk) ==
    IF data = NullPtr \/ At(data, 0) = 0 THEN [m EXCEPT !.ret = "false"]
    ELSE IF m.usbState.isConfigured = FALSE THEN [m EXCEPT !.ret = "false"]
    ELSE LET str == CStr(data, size, junk)
             m1 == [m EXCEPT !.cdcWriteBuffer = Sprintf(@, str),
                             !.usbState.isWriteComplete = FALSE]
             m2 == USB_DEVICE_CDC_Write(m1, str, wres)
         IN  [m2 EXCEPT !.ret = Bool(wres = USB_DEVICE_CDC_RESULT_OK)]

\* a cdc_usb_write that does not look at isConfigured
cdc_usb_write_unconfigured(m, data, size, wres, junk) ==
    IF data = NullPtr \/ At(data, 0) = 0 THEN [m EXCEPT !.ret = "false"]
    ELSE IF m.usbState.isWriteComplete = FALSE THEN [m EXCEPT !.ret = "false"]
    ELSE LET str == CStr(data, size, junk)
             m1 == [m EXCEPT !.cdcWriteBuffer = Sprintf(@, str),
                             !.usbState.isWriteComplete = FALSE]
             m2 == USB_DEVICE_CDC_Write(m1, str, wres)
         IN  [m2 EXCEPT !.ret = Bool(wres = USB_DEVICE_CDC_RESULT_OK)]

\* bool cdc_usb_write(char *data); data is NullPtr or the array pointed to,
\* which has size bytes
cdc_usb_write(m, data, size, wres, junk) ==
    IF data = NullPtr \/ At(data, 0) = 0 THEN [m EXCEPT !.ret = "false"]
    ELSE IF m.usbState.isConfigured = FALSE \/ m.usbState.isWriteComplete = FALSE
    THEN [m EXCEPT !.ret = "false"]
    ELSE LET str == CStr(data, size, junk)
             m1 == [m EXCEPT !.cdcWriteBuffer = Sprintf(@, str),
                             !.usbState.isWriteComplete = FALSE,
                             !.fault = @ \/ ~Terminated(data, size)
                                         \/ Len(str) >= APP_READ_BUFFER_SIZE]
             \* strlen((char *)usbState.cdcWriteBuffer): the string just written
             \* there, which runs on behind the array when it did not fit
             sent == IF Len(str) < APP_READ_BUFFER_SIZE
                     THEN CStr(m1.cdcWriteBuffer, APP_READ_BUFFER_SIZE, <<>>)
                     ELSE str
             m2 == USB_DEVICE_CDC_Write(m1, sent, wres)
         IN  [m2 EXCEPT !.ret = Bool(wres = USB_DEVICE_CDC_RESULT_OK)]

\* void ReadLine(char *data) of main.cpp; data is commandBuffer
ReadLine(m, data) ==
    IF data = NullPtr \/ At(data, 0) = 0 THEN m
    ELSE [m EXCEPT !.commandAvailable = TRUE,
                   !.command = Sprintf(@, CStr(data, APP_READ_BUFFER_SIZE, <<>>))]

\* void ConsoleReady(void) of main.cpp
ConsoleReady(m, wres) ==
    cdc_usb_write(m, consoleMenu, Len(consoleMenu) + 1, wres, <<>>)

\* the text DecodeCommand builds in txBuffer for the command str: the
\* response chosen by strcmp, "\r\n" and the menu
ResponseText(str) ==
    (IF str = TurnOnLed THEN LedIsOn
     ELSE IF str = TurnOffLed THEN LedIsOff
     ELSE IF str = ToggleLed THEN LedIsToggled
     ELSE UnknownCommand) \o CrLf \o consoleMenu

\* void DecodeCommand(char *command) of main.cpp (the GPIO calls left out)
DecodeCommand(m, cmd, wres) ==
    LET m0 == [m EXCEPT !.calls = Append(@, "DecodeCommand")] IN
    IF cmd = NullPtr \/ At(cmd, 0) = 0 THEN m0
    ELSE LET txBuffer == ResponseText(CStr(cmd, APP_READ_BUFFER_SIZE, <<>>))
         IN  [cdc_usb_write([m0 EXCEPT !.fault = @ \/ Len(txBuffer) >= TxBufferSize],
                            txBuffer, TxBufferSize, wres, <<>>)
                EXCEPT !.ret = "void"]

\* one iteration of the while loop of main (the LED toggle left out; the
\* events SYS_Tasks dispatches are events of their own)
MainLoop(m, wres) ==
    IF m.commandAvailable
    THEN DecodeCommand([m EXCEPT !.commandAvailable = FALSE], m.command, wres)
    ELSE m

\* return_line_callback(data): the call through the pointer runs the handler
\* registered, ReadLine or another handler of the application, which leaves
\* the engine alone
CallLine(m, callback, data) ==
    IF callback = "ReadLine" THEN ReadLine(m, data) ELSE m

\* console_ready_callback()
CallReady(m, callback, wres) ==
    IF callback = "ConsoleReady" THEN ConsoleReady(m, wres) ELSE m

\* a cdc_usb_return_line that resets the index and leaves the buffer's bytes
cdc_usb_return_line_keeping_buffer(m) ==
    LET m1 == IF m.return_line_callback # NullFn
              THEN CallLine([m EXCEPT !.lines = Append(@, CStr(m.commandBuffer, APP_READ_BUFFER_SIZE, <<>>)),
                                      !.calls = Append(@, m.return_line_callback)],
                            m.return_line_callback, m.commandBuffer)
              ELSE m
    IN  [m1 EXCEPT !.command_index = 0]

\* void cdc_usb_return_line(void)
cdc_usb_return_line(m) ==
    LET m1 == IF m.return_line_callback # NullFn
              THEN CallLine([m EXCEPT !.lines = Append(@, CStr(m.commandBuffer, APP_READ_BUFFER_SIZE, <<>>)),
                                      !.calls = Append(@, m.return_line_callback)],
                            m.return_line_callback, m.commandBuffer)
              ELSE m
    IN  Store([m1 EXCEPT !.command_index = 0], 0, 0)

\* void cdc_usb_console_ready(void)
cdc_usb_console_ready(m, wres) ==
    IF m.console_ready_callback # NullFn
    THEN CallReady([m EXCEPT !.ready = @ + 1,
                             !.calls = Append(@, m.console_ready_callback)],
                   m.console_ready_callback, wres)
    ELSE m

\* a cdc_usb_initialize that reports success whatever the transport answers
\* and whether or not the session is configured
cdc_usb_initialize_always_true(m, rres) ==
    LET m1 == Store([m EXCEPT !.command_index = 0,
                              !.cdcReadBuffer = Put(@, 0, 0),
                              !.cdcWriteBuffer = Put(@, 0, 0)], 0, 0)
    IN  IF m1.usbState.isConfigured = TRUE
        THEN LET m2 == USB_DEVICE_CDC_Read(m1, rres)
             IN  [m2 EXCEPT !.usbState.isReadComplete = FALSE, !.ret = "true"]
        ELSE [m1 EXCEPT !.ret = "true"]

\* a cdc_usb_initialize that leaves the command index and the command buffer
\* as they are
cdc_usb_initialize_keeping_command(m, rres) ==
    LET m1 == [m EXCEPT !.cdcReadBuffer = Put(@, 0, 0),
                        !.cdcWriteBuffer = Put(@, 0, 0)]
    IN  IF m1.usbState.isConfigured = TRUE
        THEN LET m2 == USB_DEVICE_CDC_Read(m1, rres)
             IN  [m2 EXCEPT !.usbState.isReadComplete = FALSE,
                            !.ret = Bool(rres = USB_DEVICE_CDC_RESULT_OK)]
        ELSE [m1 EXCEPT !.ret = "false"]

\* bool cdc_usb_initialize(void)
cdc_usb_initialize(m, rres) ==
    LET m1 == Store([m EXCEPT !.command_index = 0,
                              !.cdcReadBuffer = Put(@, 0, 0),
                              !.cdcWriteBuffer = Put(@, 0, 0)], 0, 0)
    IN  IF m1.usbState.isConfigured = TRUE
        THEN LET m2 == USB_DEVICE_CDC_Read(m1, rres)
             IN  [m2 EXCEPT !.usbState.isReadComplete = FALSE,
                            !.ret = Bool(rres = USB_DEVICE_CDC_RESULT_OK)]
        ELSE [m1 EXCEPT !.ret = "false"]

\* a loop iteration whose regular branch does not copy the byte for the echo
ScanBodyWithoutEcho(m, rb, i) ==
    LET c == At(m.cdcReadBuffer, i) IN
    IF c = CDC_USB_LINE_TERMINATOR
    THEN [m |-> cdc_usb_return_line(Store(m, m.command_index, 0)),
          rb |-> rb, brk |-> TRUE]
    ELSE IF c = CDC_USB_RESET_LINE_CHAR_1 \/ c = CDC_USB_RESET_LINE_CHAR_2
    THEN [m |-> [m EXCEPT !.command_index = 0],
          rb |-> Sprintf(rb, CDC_USB_RESET_LINE_RESPONSE), brk |-> TRUE]
    ELSE [m |-> [Store(m, m.command_index, c)
                    EXCEPT !.command_index = (@ + 1) % Uint8Modulus],
          rb |-> rb, brk |-> FALSE]

\* a loop iteration whose terminator branch does not leave the loop
ScanBodyScanningOn(m, rb, i) ==
    LET c == At(m.cdcReadBuffer, i) IN
    IF c = CDC_USB_LINE_TERMINATOR
    THEN [m |-> cdc_usb_return_line(Store(m, m.command_index, 0)),
          rb |-> rb, brk |-> FALSE]
    ELSE IF c = CDC_USB_RESET_LINE_CHAR_1 \/ c = CDC_USB_RESET_LINE_CHAR_2
    THEN [m |-> [m EXCEPT !.command_index = 0],
          rb |-> Sprintf(rb, CDC_USB_RESET_LINE_RESPONSE), brk |-> TRUE]
    ELSE [m |-> [Store(m, m.command_index, c)
                    EXCEPT !.command_index = (@ + 1) % Uint8Modulus],
          rb |-> Put(rb, i, c), brk |-> FALSE]

\* a loop iteration whose index is wider than 8 bits and does not wrap
ScanBodyWideIndex(m, rb, i) ==
    LET c == At(m.cdcReadBuffer, i) IN
    IF c = CDC_USB_LINE_TERMINATOR
    THEN [m |-> cdc_usb_return_line(Store(m, m.command_index, 0)),
          rb |-> rb, brk |-> TRUE]
    ELSE IF c = CDC_USB_RESET_LINE_CHAR_1 \/ c = CDC_USB_RESET_LINE_CHAR_2
    THEN [m |-> [m EXCEPT !.command_index = 0],
          rb |-> Sprintf(rb, CDC_USB_RESET_LINE_RESPONSE), brk |-> TRUE]
    ELSE [m |-> [Store(m, m.command_index, c) EXCEPT !.command_index = @ + 1],
          rb |-> Put(rb, i, c), brk |-> FALSE]

\* a loop iteration whose reset branch leaves command_index as it is
ScanBodyKeepingIndex(m, rb, i) ==
    LET c == At(m.cdcReadBuffer, i) IN
    IF c = CDC_USB_LINE_TERMINATOR
    THEN [m |-> cdc_usb_return_line(Store(m, m.command_index, 0)),
          rb |-> rb, brk |-> TRUE]
    ELSE IF c = CDC_USB_RESET_LINE_CHAR_1 \/ c = CDC_USB_RESET_LINE_CHAR_2
    THEN [m |-> m, rb |-> Sprintf(rb, CDC_USB_RESET_LINE_RESPONSE), brk |-> TRUE]
    ELSE [m |-> [Store(m, m.command_index, c)
                    EXCEPT !.command_index = (@ + 1) % Uint8Modulus],
          rb |-> Put(rb, i, c), brk |-> FALSE]

\* a loop iteration whose reset branch hands the line to the handler as the
\* terminator branch does
ScanBodyReturningOnReset(m, rb, i) ==
    LET c == At(m.cdcReadBuffer, i) IN
    IF c = CDC_USB_LINE_TERMINATOR
    THEN [m |-> cdc_usb_return_line(Store(m, m.command_index, 0)),
          rb |-> rb, brk |-> TRUE]
    ELSE IF c = CDC_USB_RESET_LINE_CHAR_1 \/ c = CDC_USB_RESET_LINE_CHAR_2
    THEN [m |-> cdc_usb_return_line(Store(m, m.command_index, 0)),
          rb |-> Sprintf(rb, CDC_USB_RESET_LINE_RESPONSE), brk |-> TRUE]
    ELSE [m |-> [Store(m, m.command_index, c)
                    EXCEPT !.command_index = (@ + 1) % Uint8Modulus],
          rb |-> Put(rb, i, c), brk |-> FALSE]

\* a loop iteration whose reset branch does not leave the loop
ScanBodyScanningOnReset(m, rb, i) ==
    LET c == At(m.cdcReadBuffer, i) IN
    IF c = CDC_USB_LINE_TERMINATOR
    THEN [m |-> cdc_usb_return_line(Store(m, m.command_index, 0)),
          rb |-> rb, brk |-> TRUE]
    ELSE IF c = CDC_USB_RESET_LINE_CHAR_1 \/ c = CDC_USB_RESET_LINE_CHAR_2
    THEN [m |-> [m EXCEPT !.command_index = 0],
          rb |-> Sprintf(rb, CDC_USB_RESET_LINE_RESPONSE), brk |-> FALSE]
    ELSE [m |-> [Store(m, m.command_index, c)
                    EXCEPT !.command_index = (@ + 1) % Uint8Modulus],
          rb |-> Put(rb, i, c), brk |-> FALSE]

\* a loop iteration whose terminator branch does not terminate the command
ScanBodyWithoutNul(m, rb, i) ==
    LET c == At(m.cdcReadBuffer, i) IN
    IF c = CDC_USB_LINE_TERMINATOR
    THEN [m |-> cdc_usb_return_line(m), rb |-> rb, brk |-> TRUE]
    ELSE IF c = CDC_USB_RESET_LINE_CHAR_1 \/ c = CDC_USB_RESET_LINE_CHAR_2
    THEN [m |-> [m EXCEPT !.command_index = 0],
          rb |-> Sprintf(rb, CDC_USB_RESET_LINE_RESPONSE), brk |-> TRUE]
    ELSE [m |-> [Store(m, m.command_index, c)
                    EXCEPT !.command_index = (@ + 1) % Uint8Modulus],
          rb |-> Put(rb, i, c), brk |-> FALSE]

\* one iteration of the for loop of cdc_usb_read_line, at index i; rb is
\* receivedBuffer and brk tells that the iteration left the loop by break
ScanBody(m, rb, i) ==
    LET c == At(m.cdcReadBuffer, i) IN
    IF c = CDC_USB_LINE_TERMINATOR
    THEN [m |-> cdc_usb_return_line(Store(m, m.command_index, 0)),
          rb |-> rb, brk |-> TRUE]
    ELSE IF c = CDC_USB_RESET_LINE_CHAR_1 \/ c = CDC_USB_RESET_LINE_CHAR_2
    THEN [m |-> [m EXCEPT !.command_index = 0],
          rb |-> Sprintf(rb, CDC_USB_RESET_LINE_RESPONSE), brk |-> TRUE]
    ELSE [m |-> [Store(m, m.command_index, c)
                    EXCEPT !.command_index = (@ + 1) % Uint8Modulus],
          rb |-> Put(rb, i, c), brk |-> FALSE]

RECURSIVE ScanLoop(_, _, _, _)
\* the iterations lo .. hi-1 of the for loop (lo < hi), in order, up to the
\* first break: the first half of the range, then the second
ScanLoop(m, rb, lo, hi) ==
    IF hi - lo = 1 THEN ScanBody(m, rb, lo)
    ELSE LET mid == (lo + hi) \div 2
             r == ScanLoop(m, rb, lo, mid)
         IN  IF r.brk THEN r ELSE ScanLoop(r.m, r.rb, mid, hi)

\* a cdc_usb_read_line that submits no read after the scan
cdc_usb_read_line_without_read(m, rres, wres, junk) ==
    IF m.usbState.numBytesRead = 0 \/ m.usbState.isReadComplete = FALSE THEN m
    ELSE LET r == ScanLoop(m, ZeroBuffer, 0, m.usbState.numBytesRead)
             m1 == [r.m EXCEPT !.usbState.isReadComplete = FALSE,
                               !.usbState.numBytesRead = 0]
         IN  [cdc_usb_write(m1, r.rb, APP_READ_BUFFER_SIZE, wres, junk)
            EXCEPT !.ret = "void"]

\* a cdc_usb_read_line that echoes the command accumulated so far, the bytes
\* of earlier chunks included
cdc_usb_read_line_echoing_command(m, rres, wres, junk) ==
    IF m.usbState.numBytesRead = 0 \/ m.usbState.isReadComplete = FALSE THEN m
    ELSE LET r == ScanLoop(m, ZeroBuffer, 0, m.usbState.numBytesRead)
             m1 == [r.m EXCEPT !.usbState.isReadComplete = FALSE,
                               !.usbState.numBytesRead = 0]
             m2 == USB_DEVICE_CDC_Read(m1, rres)
         IN  [cdc_usb_write(m2, m2.commandBuffer, APP_READ_BUFFER_SIZE, wres, junk)
            EXCEPT !.ret = "void"]

\* a cdc_usb_read_line that submits the echo before the next read
cdc_usb_read_line_writing_first(m, rres, wres, junk) ==
    IF m.usbState.numBytesRead = 0 \/ m.usbState.isReadComplete = FALSE THEN m
    ELSE LET r == ScanLoop(m, ZeroBuffer, 0, m.usbState.numBytesRead)
             m1 == [r.m EXCEPT !.usbState.isReadComplete = FALSE,
                               !.usbState.numBytesRead = 0]
             m2 == cdc_usb_write(m1, r.rb, APP_READ_BUFFER_SIZE, wres, junk)
         IN  [USB_DEVICE_CDC_Read(m2, rres) EXCEPT !.ret = "void"]

\* void cdc_usb_read_line(void)
cdc_usb_read_line(m, rres, wres, junk) ==
    IF m.usbState.numBytesRead = 0 \/ m.usbState.isReadComplete = FALSE THEN m
    ELSE LET r == ScanLoop(m, ZeroBuffer, 0, m.usbState.numBytesRead)
             m1 == [r.m EXCEPT !.usbState.isReadComplete = FALSE,
                               !.usbState.numBytesRead = 0]
             m2 == USB_DEVICE_CDC_Read(m1, rres)
         IN  [cdc_usb_write(m2, r.rb, APP_READ_BUFFER_SIZE, wres, junk)
            EXCEPT !.ret = "void"]

\* a device event handler whose CONFIGURED case only sets isConfigured
APP_USBDeviceEventHandler_without_initialize(m, event, configurationValue, rres, wres) ==
    CASE event = "USB_DEVICE_EVENT_RESET" ->
            [m EXCEPT !.usbState.isConfigured = FALSE]
      [] event = "USB_DEVICE_EVENT_CONFIGURED" ->
            IF configurationValue = 1
            THEN [m EXCEPT !.usbState.isConfigured = TRUE]
            ELSE m
      [] event = "USB_DEVICE_EVENT_POWER_REMOVED" ->
            [m EXCEPT !.usbState.isConfigured = FALSE]
      [] OTHER -> m

\* a device event handler whose POWER_REMOVED case leaves isConfigured
APP_USBDeviceEventHandler_keeping_configured(m, event, configurationValue, rres, wres) ==
    CASE event = "USB_DEVICE_EVENT_RESET" ->
            [m EXCEPT !.usbState.isConfigured = FALSE]
      [] event = "USB_DEVICE_EVENT_CONFIGURED" ->
            IF configurationValue = 1
            THEN LET m1 == cdc_usb_initialize(
                               [m EXCEPT !.usbState.isConfigured = TRUE], rres)
                 IN  [(IF m1.ret = "true" THEN cdc_usb_console_ready(m1, wres) ELSE m1)
                         EXCEPT !.ret = "void"]
            ELSE m
      [] OTHER -> m

\* a device event handler whose CONFIGURED case takes any configuration value
APP_USBDeviceEventHandler_any_configuration(m, event, configurationValue, rres, wres) ==
    CASE event = "USB_DEVICE_EVENT_RESET" ->
            [m EXCEPT !.usbState.isConfigured = FALSE]
      [] event = "USB_DEVICE_EVENT_CONFIGURED" ->
            LET m1 == cdc_usb_initialize(
                          [m EXCEPT !.usbState.isConfigured = TRUE], rres)
            IN  [(IF m1.ret = "true" THEN cdc_usb_console_ready(m1, wres) ELSE m1)
                    EXCEPT !.ret = "void"]
      [] event = "USB_DEVICE_EVENT_POWER_REMOVED" ->
            [m EXCEPT !.usbState.isConfigured = FALSE]
      [] OTHER -> m

\* void APP_USBDeviceEventHandler(event, eventData, context)
APP_USBDeviceEventHandler(m, event, configurationValue, rres, wres) ==
    CASE event = "USB_DEVICE_EVENT_RESET" ->
            [m EXCEPT !.usbState.isConfigured = FALSE]
      [] event = "USB_DEVICE_EVENT_CONFIGURED" ->
            IF configurationValue = 1
            THEN LET m1 == cdc_usb_initialize(
                               [m EXCEPT !.usbState.isConfigured = TRUE], rres)
                 IN  [(IF m1.ret = "true" THEN cdc_usb_console_ready(m1, wres) ELSE m1)
                         EXCEPT !.ret = "void"]
            ELSE m
      [] event = "USB_DEVICE_EVENT_POWER_REMOVED" ->
            [m EXCEPT !.usbState.isConfigured = FALSE]
      [] OTHER -> m

\* a CDC event handler whose READ_COMPLETE case does not look at the status
APP_USBDeviceCDCEventHandler_any_status(m, event, pData, rres, wres, junk) ==
    CASE event = "USB_DEVICE_CDC_EVENT_READ_COMPLETE" ->
            cdc_usb_read_line(
                [m EXCEPT !.usbState.isReadComplete = TRUE,
                          !.usbState.numBytesRead = pData.length],
                rres, wres, junk)
      [] event = "USB_DEVICE_CDC_EVENT_WRITE_COMPLETE" ->
            [m EXCEPT !.usbState.isWriteComplete = TRUE]
      [] OTHER -> m

\* a CDC event handler whose WRITE_COMPLETE case leaves isWriteComplete
APP_USBDeviceCDCEventHandler_keeping_flag(m, event, pData, rres, wres, junk) ==
    CASE event = "USB_DEVICE_CDC_EVENT_READ_COMPLETE" ->
            IF pData.status # USB_DEVICE_CDC_RESULT_ERROR
            THEN cdc_usb_read_line(
                     [m EXCEPT !.usbState.isReadComplete = TRUE,
                               !.usbState.numBytesRead = pData.length],
                     rres, wres, junk)
            ELSE m
      [] OTHER -> m

\* a CDC event handler whose SEND_BREAK case also empties the command buffer
APP_USBDeviceCDCEventHandler_break_resets(m, event, pData, rres, wres, junk) ==
    CASE event = "USB_DEVICE_CDC_EVENT_SET_CONTROL_LINE_STATE" ->
            [m EXCEPT !.usbState.controlLineStateData =
                          [dtr |-> pData.dtr, carrier |-> pData.carrier],
                      !.calls = Append(@, "USB_DEVICE_ControlStatus")]
      [] event = "USB_DEVICE_CDC_EVENT_SEND_BREAK" ->
            [m EXCEPT !.usbState.breakData = pData.breakDuration,
                      !.command_index = 0,
                      !.calls = Append(@, "USB_DEVICE_ControlStatus")]
      [] event = "USB_DEVICE_CDC_EVENT_READ_COMPLETE" ->
            IF pData.status # USB_DEVICE_CDC_RESULT_ERROR
            THEN cdc_usb_read_line(
                     [m EXCEPT !.usbState.isReadComplete = TRUE,
                               !.usbState.numBytesRead = pData.length],
                     rres, wres, junk)
            ELSE m
      [] event = "USB_DEVICE_CDC_EVENT_WRITE_COMPLETE" ->
            [m EXCEPT !.usbState.isWriteComplete = TRUE]
      [] OTHER -> m

\* USB_DEVICE_CDC_EVENT_RESPONSE APP_USBDeviceCDCEventHandler(index, event, pData, userData);
\* pData is the record of the event's data, NullPtr when it has none
APP_USBDeviceCDCEventHandler(m, event, pData, rres, wres, junk) ==
    CASE event = "USB_DEVICE_CDC_EVENT_SET_CONTROL_LINE_STATE" ->
            [m EXCEPT !.usbState.controlLineStateData =
                          [dtr |-> pData.dtr, carrier |-> pData.carrier],
                      !.calls = Append(@, "USB_DEVICE_ControlStatus")]
      [] event = "USB_DEVICE_CDC_EVENT_SEND_BREAK" ->
            [m EXCEPT !.usbState.breakData = pData.breakDuration,
                      !.calls = Append(@, "USB_DEVICE_ControlStatus")]
      [] event = "USB_DEVICE_CDC_EVENT_READ_COMPLETE" ->
            IF pData.status # USB_DEVICE_CDC_RESULT_ERROR
            THEN cdc_usb_read_line(
                     [m EXCEPT !.usbState.isReadComplete = TRUE,
                               !.usbState.numBytesRead = pData.length],
                     rres, wres, junk)
            ELSE m
      [] event = "USB_DEVICE_CDC_EVENT_WRITE_COMPLETE" ->
            [m EXCEPT !.usbState.isWriteComplete = TRUE]
      [] OTHER -> m

\* --------------------------------------------------------------- inputs

IsControl(b) ==
    b \in {CDC_USB_LINE_TERMINATOR, CDC_USB_RESET_LINE_CHAR_1, CDC_USB_RESET_LINE_CHAR_2}

\* the position (1-based) of a chunk's first terminator or reset byte; 0 if none
FirstControl(chunk) ==
    IF \E i \in 1..Len(chunk) : IsControl(chunk[i])
    THEN CHOOSE i \in 1..Len(chunk) :
            IsControl(chunk[i]) /\ \A j \in 1..(i - 1) : ~IsControl(chunk[j])
    ELSE 0

\* the plain bytes a scan of the chunk passes before it stops
PlainPrefix(chunk) ==
    IF FirstControl(chunk) = 0 THEN chunk ELSE SubSeq(chunk, 1, FirstControl(chunk) - 1)

EndsInTerminator(chunk) ==
    FirstControl(chunk) # 0 /\ chunk[FirstControl(chunk)] = CDC_USB_LINE_TERMINATOR
EndsInReset(chunk) ==
    FirstControl(chunk) # 0 /\ chunk[FirstControl(chunk)] # CDC_USB_LINE_TERMINATOR

\* the bytes the host sends in the short chunks: NUL, the three control
\* bytes, a letter and a byte above 0x7F
InputBytes == {0, 7, 8, 13, 97, 200}

\* short chunks: the empty one, every chunk of one byte, two plain bytes, plain
\* bytes before and after a control byte, and a run of plain bytes longer than
\* the reset response before a reset byte
ShortChunks ==
    {<<>>}
    \cup {<<b>> : b \in InputBytes}
    \cup {<<97, 200>>, <<97, 13, 200>>, <<97, 7, 200>>}
    \cup {Fill(LongRun, 97) \o <<7>>}

\* long chunks: runs of a plain byte as long as the index and the buffers are
\* wide, or one byte shorter, alone or followed by a control byte
LongChunks ==
    {Fill(Uint8Modulus - 1, 97) \o <<13>>, Fill(Uint8Modulus, 97) \o <<13>>,
     Fill(APP_READ_BUFFER_SIZE - 1, 97), Fill(APP_READ_BUFFER_SIZE, 97),
     Fill(APP_READ_BUFFER_SIZE - 1, 97) \o <<7>>}

\* the chunks a failed read completion reports
FailedChunks == {<<>>, <<97>>, <<CDC_USB_LINE_TERMINATOR>>}

\* what the application passes to cdc_usb_write: NULL, "", "hello", "hi"
WriteData == {NullPtr, <<>>, <<104, 101, 108, 108, 111>>, <<104, 105>>}

\* the transport stores the received bytes at the start of the read buffer
Receive(buffer, chunk) ==
    IF Len(buffer) > Len(chunk)
    THEN chunk \o SubSeq(buffer, Len(chunk) + 1, Len(buffer))
    ELSE Trim(chunk)

\* --------------------------------------------------------------- events

\* the globals as their initialisers leave them, no transfer queued
InitialMachine ==
    [usbState |-> [isConfigured |-> FALSE, isReadComplete |-> FALSE,
                   isWriteComplete |-> TRUE, numBytesRead |-> 0,
                   controlLineStateData |-> [dtr |-> 0, carrier |-> 0],
                   breakData |-> 0],
     cdcReadBuffer |-> ZeroBuffer, cdcWriteBuffer |-> ZeroBuffer,
     commandBuffer |-> ZeroBuffer, command_index |-> 0,
     return_line_callback |-> NullFn, console_ready_callback |-> NullFn,
     commandAvailable |-> FALSE, command |-> ZeroBuffer,
     readsQueued |-> 0, writesQueued |-> 0, fault |-> FALSE,
     reads |-> 0, writes |-> <<>>, lines |-> <<>>, ready |-> 0, top |-> -1, calls |-> <<>>, ret |-> "void"]

\* a behaviour starts with the machine m
Start(m) ==
    /\ usbState = m.usbState
    /\ cdcReadBuffer = m.cdcReadBuffer
    /\ cdcWriteBuffer = m.cdcWriteBuffer
    /\ commandBuffer = m.commandBuffer
    /\ command_index = m.command_index
    /\ return_line_callback = m.return_line_callback
    /\ console_ready_callback = m.console_ready_callback
    /\ commandAvailable = m.commandAvailable
    /\ command = m.command
    /\ readsQueued = m.readsQueued
    /\ writesQueued = m.writesQueued
    /\ fault = m.fault
    /\ accepted = <<>>
    /\ armed = (m.readsQueued > 0)
    /\ delivered = <<>>
    /\ decoded = <<>>
    /\ nEvents = 0
    /\ nLong = 0
    /\ nRefused = 0
    /\ ev = [kind |-> "init", chunk |-> <<>>, status |-> USB_DEVICE_CDC_RESULT_OK,
             data |-> NullPtr, rres |-> USB_DEVICE_CDC_RESULT_OK,
             wres |-> USB_DEVICE_CDC_RESULT_OK, prev |-> "none", before |-> Before,
             handler |-> NullFn,
             reads |-> 0, writes |-> <<>>, lines |-> <<>>, ready |-> 0, top |-> -1, calls |-> <<>>, ret |-> "void"]

Init == Start(InitialMachine)

\* the device layer reports USB_DEVICE_EVENT_CONFIGURED
ConfiguredEvent ==
    /\ nEvents < MaxEvents
    /\ \E value \in {1, 2}, rres \in Answers(readsQueued), wres \in Answers(writesQueued) :
        /\ Commit(APP_USBDeviceEventHandler(Machine, "USB_DEVICE_EVENT_CONFIGURED",
                                            value, rres, wres),
                  Input("configured", <<value>>, USB_DEVICE_CDC_RESULT_OK, NullPtr,
                        rres, wres))
        /\ nRefused' <= MaxRefusals
        /\ accepted' = IF value = 1 THEN <<>> ELSE accepted
        /\ armed' = (armed \/ readsQueued' > readsQueued)
        /\ UNCHANGED nLong

\* the device layer reports USB_DEVICE_EVENT_RESET
ResetEvent ==
    /\ nEvents < MaxEvents
    /\ Commit(APP_USBDeviceEventHandler(Machine, "USB_DEVICE_EVENT_RESET", 0,
                                        USB_DEVICE_CDC_RESULT_OK,
                                        USB_DEVICE_CDC_RESULT_OK),
              Input("reset", <<>>, USB_DEVICE_CDC_RESULT_OK, NullPtr,
                    USB_DEVICE_CDC_RESULT_OK, USB_DEVICE_CDC_RESULT_OK))
    /\ armed' = FALSE
    /\ UNCHANGED <<accepted, nLong>>

\* the device layer reports USB_DEVICE_EVENT_POWER_REMOVED
PowerRemovedEvent ==
    /\ nEvents < MaxEvents
    /\ Commit(APP_USBDeviceEventHandler(Machine, "USB_DEVICE_EVENT_POWER_REMOVED", 0,
                                        USB_DEVICE_CDC_RESULT_OK,
                                        USB_DEVICE_CDC_RESULT_OK),
              Input("power_removed", <<>>, USB_DEVICE_CDC_RESULT_OK, NullPtr,
                    USB_DEVICE_CDC_RESULT_OK, USB_DEVICE_CDC_RESULT_OK))
    /\ armed' = FALSE
    /\ UNCHANGED <<accepted, nLong>>

\* a queued read completes with the given chunk and status: the transport has
\* stored the chunk in the read buffer and reports USB_DEVICE_CDC_EVENT_READ_COMPLETE
ReadComplete(chunk, status) ==
    /\ nEvents < MaxEvents
    /\ readsQueued > 0
    /\ \E rres \in Answers(readsQueued - 1), wres \in Answers(writesQueued),
          junk \in JunkChoices :
        /\ Len(chunk) < APP_READ_BUFFER_SIZE => junk = <<>>
        /\ Commit(APP_USBDeviceCDCEventHandler(
                      [Machine EXCEPT !.readsQueued = @ - 1,
                                      !.cdcReadBuffer = Receive(@, chunk)],
                      "USB_DEVICE_CDC_EVENT_READ_COMPLETE",
                      [length |-> Len(chunk), status |-> status],
                      rres, wres, junk),
                  Input("read_complete", chunk, status, NullPtr, rres, wres))
        /\ nRefused' <= MaxRefusals
    /\ accepted' = IF status = USB_DEVICE_CDC_RESULT_ERROR \/ Len(chunk) = 0
                   THEN accepted
                   ELSE IF FirstControl(chunk) # 0 THEN <<>>
                   ELSE accepted \o chunk
    /\ UNCHANGED armed

\* a read completes with a short chunk
ReadCompleteEvent ==
    \E chunk \in ShortChunks :
        /\ ReadComplete(chunk, USB_DEVICE_CDC_RESULT_OK)
        /\ UNCHANGED nLong

\* a read completes with a long chunk
LongReadCompleteEvent ==
    \E chunk \in LongChunks :
        /\ nLong < MaxLong
        /\ nEvents < LongBy
        /\ ReadComplete(chunk, USB_DEVICE_CDC_RESULT_OK)
        /\ nLong' = nLong + 1

\* a read completes with an error status
ReadFailedEvent ==
    \E chunk \in FailedChunks :
        /\ ReadComplete(chunk, USB_DEVICE_CDC_RESULT_ERROR)
        /\ UNCHANGED nLong

\* a queued write completes: USB_DEVICE_CDC_EVENT_WRITE_COMPLETE
WriteCompleteEvent ==
    /\ nEvents < MaxEvents
    /\ writesQueued > 0
    /\ Commit(APP_USBDeviceCDCEventHandler(
                  [Machine EXCEPT !.writesQueued = @ - 1],
                  "USB_DEVICE_CDC_EVENT_WRITE_COMPLETE", NullPtr,
                  USB_DEVICE_CDC_RESULT_OK, USB_DEVICE_CDC_RESULT_OK, <<>>),
              Input("write_complete", <<>>, USB_DEVICE_CDC_RESULT_OK, NullPtr,
                    USB_DEVICE_CDC_RESULT_OK, USB_DEVICE_CDC_RESULT_OK))
    /\ UNCHANGED <<accepted, armed, nLong>>

\* the application calls cdc_usb_initialize()
CallInitialize ==
    /\ nEvents < MaxEvents
    /\ \E rres \in Answers(readsQueued) :
        /\ Commit(cdc_usb_initialize(Machine, rres),
                  Input("initialize", <<>>, USB_DEVICE_CDC_RESULT_OK, NullPtr,
                        rres, USB_DEVICE_CDC_RESULT_OK))
        /\ accepted' = <<>>
        /\ armed' = (armed \/ readsQueued' > readsQueued)
        /\ UNCHANGED nLong

\* the application calls cdc_usb_write(data)
CallWrite ==
    /\ nEvents < MaxEvents
    /\ \E data \in WriteData, wres \in Answers(writesQueued) :
        /\ Commit(cdc_usb_write(Machine, data, Len(data) + 1, wres, <<>>),
                  Input("write", <<>>, USB_DEVICE_CDC_RESULT_OK, data,
                        USB_DEVICE_CDC_RESULT_OK, wres))
        /\ UNCHANGED <<accepted, armed, nLong>>

\* a registration that keeps the handler already in the slot
cdc_usb_return_line_callback_register_keeping(m, callback) ==
    IF m.return_line_callback # NullFn THEN m
    ELSE [m EXCEPT !.return_line_callback = callback]

\* void cdc_usb_return_line_callback_register(void (*callback)(char*))
cdc_usb_return_line_callback_register(m, callback) ==
    [m EXCEPT !.return_line_callback = callback]

\* void cdc_usb_return_line_callback_unregister(void)
cdc_usb_return_line_callback_unregister(m) ==
    [m EXCEPT !.return_line_callback = NullFn]

\* void cdc_usb_console_ready_callback_register(void (*callback)(void))
cdc_usb_console_ready_callback_register(m, callback) ==
    [m EXCEPT !.console_ready_callback = callback]

\* void cdc_usb_console_ready_callback_unregister(void)
cdc_usb_console_ready_callback_unregister(m) ==
    [m EXCEPT !.console_ready_callback = NullFn]

\* the application registers or unregisters a handler
CallRegister ==
    /\ nEvents < MaxEvents
    /\ \E m \in {cdc_usb_return_line_callback_register(Machine, "ReadLine"),
              cdc_usb_return_line_callback_unregister(Machine),
              cdc_usb_console_ready_callback_register(Machine, "ConsoleReady"),
              cdc_usb_console_ready_callback_unregister(Machine)} :
        /\ Commit(m, Input("register", <<>>, USB_DEVICE_CDC_RESULT_OK, NullPtr,
                           USB_DEVICE_CDC_RESULT_OK, USB_DEVICE_CDC_RESULT_OK))
        /\ UNCHANGED <<accepted, armed, nLong>>

Next ==
    \/ ConfiguredEvent
    \/ ResetEvent
    \/ PowerRemovedEvent
    \/ ReadCompleteEvent
    \/ ReadFailedEvent
    \/ WriteCompleteEvent
    \/ CallInitialize
    \/ CallWrite
    \/ CallRegister

Spec == Init /\ [][Next]_vars

\* the machine once main has registered its two handlers, the device has been
\* configured and the transport has accepted the first read and the menu
Armed ==
    APP_USBDeviceEventHandler(
        cdc_usb_console_ready_callback_register(
            cdc_usb_return_line_callback_register(InitialMachine, "ReadLine"),
            "ConsoleReady"),
        "USB_DEVICE_EVENT_CONFIGURED", 1,
        USB_DEVICE_CDC_RESULT_OK, USB_DEVICE_CDC_RESULT_OK)

InitLong == Start(Armed)

\* on the armed console chunks of any length arrive and writes complete
NextLong ==
    \/ nEvents < MaxEventsLong /\ ReadCompleteEvent
    \/ nEvents < MaxEventsLong /\ LongReadCompleteEvent
    \/ nEvents < MaxEventsLong /\ WriteCompleteEvent

SpecLong == InitLong /\ [][NextLong]_vars

\* the handlers an application registers: those of main.cpp and one other
\* handler for each slot
LineHandlers == {"ReadLine", "OtherLine"}
ReadyHandlers == {"ConsoleReady", "OtherReady"}

\* the application calls cdc_usb_return_line_callback_register(h), h a handler
\* or NULL
RegisterLineEvent ==
    /\ nEvents < MaxEvents
    /\ \E h \in LineHandlers \cup {NullFn} :
        Commit(cdc_usb_return_line_callback_register(Machine, h),
               [Input("register_line", <<>>, USB_DEVICE_CDC_RESULT_OK, NullPtr,
                      USB_DEVICE_CDC_RESULT_OK, USB_DEVICE_CDC_RESULT_OK)
                   EXCEPT !.handler = h])
    /\ UNCHANGED <<accepted, armed, nLong>>

\* the application calls cdc_usb_return_line_callback_unregister()
UnregisterLineEvent ==
    /\ nEvents < MaxEvents
    /\ Commit(cdc_usb_return_line_callback_unregister(Machine),
              Input("unregister_line", <<>>, USB_DEVICE_CDC_RESULT_OK, NullPtr,
                    USB_DEVICE_CDC_RESULT_OK, USB_DEVICE_CDC_RESULT_OK))
    /\ UNCHANGED <<accepted, armed, nLong>>

\* the application calls cdc_usb_console_ready_callback_register(h), h a
\* handler or NULL
RegisterReadyEvent ==
    /\ nEvents < MaxEvents
    /\ \E h \in ReadyHandlers \cup {NullFn} :
        Commit(cdc_usb_console_ready_callback_register(Machine, h),
               [Input("register_ready", <<>>, USB_DEVICE_CDC_RESULT_OK, NullPtr,
                      USB_DEVICE_CDC_RESULT_OK, USB_DEVICE_CDC_RESULT_OK)
                   EXCEPT !.handler = h])
    /\ UNCHANGED <<accepted, armed, nLong>>

\* the application calls cdc_usb_console_ready_callback_unregister()
UnregisterReadyEvent ==
    /\ nEvents < MaxEvents
    /\ Commit(cdc_usb_console_ready_callback_unregister(Machine),
              Input("unregister_ready", <<>>, USB_DEVICE_CDC_RESULT_OK, NullPtr,
                    USB_DEVICE_CDC_RESULT_OK, USB_DEVICE_CDC_RESULT_OK))
    /\ UNCHANGED <<accepted, armed, nLong>>

\* the values of a control line and the break durations the host sends
LineLevels == {0, 1}
BreakDurations == {0, 500}

\* the host sets the control line state: USB_DEVICE_CDC_EVENT_SET_CONTROL_LINE_STATE
ControlLineStateEvent ==
    /\ nEvents < MaxEvents
    /\ \E dtr \in LineLevels, carrier \in LineLevels :
        Commit(APP_USBDeviceCDCEventHandler(
                   Machine, "USB_DEVICE_CDC_EVENT_SET_CONTROL_LINE_STATE",
                   [dtr |-> dtr, carrier |-> carrier],
                   USB_DEVICE_CDC_RESULT_OK, USB_DEVICE_CDC_RESULT_OK, <<>>),
               Input("control_line_state", <<dtr, carrier>>, USB_DEVICE_CDC_RESULT_OK,
                     NullPtr, USB_DEVICE_CDC_RESULT_OK, USB_DEVICE_CDC_RESULT_OK))
    /\ UNCHANGED <<accepted, armed, nLong>>

\* the host requests a break: USB_DEVICE_CDC_EVENT_SEND_BREAK
SendBreakEvent ==
    /\ nEvents < MaxEvents
    /\ \E duration \in BreakDurations :
        Commit(APP_USBDeviceCDCEventHandler(
                   Machine, "USB_DEVICE_CDC_EVENT_SEND_BREAK",
                   [breakDuration |-> duration],
                   USB_DEVICE_CDC_RESULT_OK, USB_DEVICE_CDC_RESULT_OK, <<>>),
               Input("send_break", <<duration>>, USB_DEVICE_CDC_RESULT_OK,
                     NullPtr, USB_DEVICE_CDC_RESULT_OK, USB_DEVICE_CDC_RESULT_OK))
    /\ UNCHANGED <<accepted, armed, nLong>>

\* on the armed console handlers are registered, replaced and unregistered
\* while chunks arrive, transfers complete and the host sends control requests
NextHandlers ==
    \/ nEvents < MaxEventsHandlers /\ RegisterLineEvent
    \/ nEvents < MaxEventsHandlers /\ UnregisterLineEvent
    \/ nEvents < MaxEventsHandlers /\ RegisterReadyEvent
    \/ nEvents < MaxEventsHandlers /\ UnregisterReadyEvent
    \/ nEvents < MaxEventsHandlers /\ ControlLineStateEvent
    \/ nEvents < MaxEventsHandlers /\ SendBreakEvent
    \/ nEvents < MaxEventsHandlers /\ ConfiguredEvent
    \/ nEvents < MaxEventsHandlers /\ ResetEvent
    \/ nEvents < MaxEventsHandlers /\ ReadCompleteEvent
    \/ nEvents < MaxEventsHandlers /\ ReadFailedEvent
    \/ nEvents < MaxEventsHandlers /\ WriteCompleteEvent

SpecHandlers == InitLong /\ [][NextHandlers]_vars

\* chunks that hold a whole command line
CommandChunks ==
    {ToggleLed \o <<CDC_USB_LINE_TERMINATOR>>,
     TurnOnLed \o <<CDC_USB_LINE_TERMINATOR>>,
     <<97, CDC_USB_LINE_TERMINATOR>>}

\* a read completes with a command line
CommandReadCompleteEvent ==
    \E chunk \in CommandChunks :
        /\ ReadComplete(chunk, USB_DEVICE_CDC_RESULT_OK)
        /\ UNCHANGED nLong

\* the main loop makes one iteration
MainLoopEvent ==
    /\ nEvents < MaxEvents
    /\ \E wres \in Answers(writesQueued) :
        /\ Commit(MainLoop(Machine, wres),
                  Input("main_loop", <<>>, USB_DEVICE_CDC_RESULT_OK,
                        IF commandAvailable THEN command ELSE NullPtr,
                        USB_DEVICE_CDC_RESULT_OK, wres))
        /\ nRefused' <= MaxRefusals
    /\ UNCHANGED <<accepted, armed, nLong>>

\* on the armed console command lines arrive and writes complete while the
\* main loop runs
NextMain ==
    \/ nEvents < MaxEventsMain /\ CommandReadCompleteEvent
    \/ nEvents < MaxEventsMain /\ WriteCompleteEvent
    \/ nEvents < MaxEventsMain /\ MainLoopEvent

SpecMain == InitLong /\ [][NextMain]_vars

\* ------------------------------------------------------------ properties

\* the last event was a read completion that cdc_usb_read_line processed
Processed ==
    /\ ev.kind = "read_complete"
    /\ ev.status # USB_DEVICE_CDC_RESULT_ERROR
    /\ Len(ev.chunk) > 0

\* the write gate was open when the last event began
GateWasOpen == ev.before.isConfigured /\ ev.before.isWriteComplete

\* the plain bytes received since the command buffer was last empty, up to the
\* control byte at which the last chunk's scan stopped
Line == ev.before.accepted \o PlainPrefix(ev.chunk)

NoNul(s) == \A i \in 1..Len(s) : s[i] # 0

\* data is a string cdc_usb_write takes: not NULL, not empty
ValidData(data) == data # NullPtr /\ At(data, 0) # 0

\* C1: plain bytes S (here without NUL), fewer than APP_READ_BUFFER_SIZE of
\* them, received since the command buffer was empty and followed by the
\* terminator: the registered line handler is called exactly once, with S, and
\* the command buffer is empty afterwards.
C1_TerminatorCompleteness ==
    (/\ Processed
     /\ EndsInTerminator(ev.chunk)
     /\ ev.before.return_line_callback # NullFn
     /\ Len(Line) < APP_READ_BUFFER_SIZE
     /\ NoNul(Line))
    => (ev.lines = <<Line>> /\ command_index = 0)

\* C2: a processed chunk whose scan stops at a reset byte leaves the command
\* buffer's length 0 and calls no line handler, whatever the buffer held.
C2_ResetClears ==
    (Processed /\ EndsInReset(ev.chunk))
    => (command_index = 0 /\ ev.lines = <<>>)

\* C2's case: a reset byte arrives after APP_READ_BUFFER_SIZE or more plain
\* bytes were accepted, with a line handler registered
C2_Witness ==
    /\ Processed
    /\ EndsInReset(ev.chunk)
    /\ Len(ev.before.accepted) >= APP_READ_BUFFER_SIZE
    /\ ev.before.return_line_callback # NullFn
    /\ command_index = 0
    /\ ev.lines = <<>>

\* C3: with the write gate open, a processed chunk whose scan stops at a reset
\* byte submits one write, of exactly the bytes of the reset response, however
\* many plain bytes precede the reset byte in the chunk.
C3_ResetAcknowledgement ==
    (Processed /\ EndsInReset(ev.chunk) /\ GateWasOpen)
    => ev.writes = <<CDC_USB_RESET_LINE_RESPONSE>>

\* C3's case: APP_READ_BUFFER_SIZE - 1 plain bytes precede the reset byte
C3_Witness ==
    /\ Processed
    /\ EndsInReset(ev.chunk)
    /\ GateWasOpen
    /\ Len(PlainPrefix(ev.chunk)) = APP_READ_BUFFER_SIZE - 1
    /\ ev.writes = <<CDC_USB_RESET_LINE_RESPONSE>>

\* C4: with the write gate open, a processed chunk of 1 to APP_READ_BUFFER_SIZE
\* plain bytes (here without NUL) submits one write, of exactly the bytes
\* received.
C4_EchoFidelity ==
    (/\ Processed
     /\ FirstControl(ev.chunk) = 0
     /\ NoNul(ev.chunk)
     /\ Len(ev.chunk) <= APP_READ_BUFFER_SIZE
     /\ GateWasOpen)
    => ev.writes = <<ev.chunk>>

\* C5: an event that began with a write outstanding submits no write, and a
\* call of cdc_usb_write in it returns false; and two calls of cdc_usb_write in
\* a row, the first of which submitted a write, make one submission together.
C5_NoOverlap ==
    /\ [](~ev.before.isWriteComplete => ev.writes = <<>>)
    /\ []((ev.kind = "write" /\ ~ev.before.isWriteComplete) => ev.ret = "false")
    /\ [][(ev.kind = "write" /\ Len(ev.writes) = 1 /\ ev'.kind = "write")
            => (ev'.ret = "false" /\ Len(ev.writes) + Len(ev'.writes) = 1)]_vars

\* C5's case: two calls of cdc_usb_write with valid data in a row on a
\* configured session, the first admitted, the second refused
C5_Witness ==
    /\ ev.kind = "write"
    /\ ev.prev = "write"
    /\ ValidData(ev.data)
    /\ ev.before.isConfigured
    /\ ~ev.before.isWriteComplete
    /\ ev.before.writesQueued = 1
    /\ ev.ret = "false"
    /\ ev.writes = <<>>
    /\ writesQueued = 1

\* C6: a write completion sets isWriteComplete; the flag is cleared only by an
\* event that submits a write; and a call of cdc_usb_write with valid data on
\* a configured session with the flag set, which the transport accepts, returns
\* true and submits exactly one write, of the data.
C6_GateReopens ==
    /\ ev.kind = "write_complete" => usbState.isWriteComplete
    /\ (ev.before.isWriteComplete /\ ~usbState.isWriteComplete)
        => Len(ev.writes) = 1
    /\ (/\ ev.kind = "write"
        /\ ValidData(ev.data)
        /\ GateWasOpen
        /\ ev.wres = USB_DEVICE_CDC_RESULT_OK)
        => (ev.ret = "true" /\ ev.writes = <<ev.data>>)

\* C6's case: the call of cdc_usb_write right after a write completion, on a
\* configured session, is admitted
C6_Witness ==
    /\ ev.kind = "write"
    /\ ev.prev = "write_complete"
    /\ ValidData(ev.data)
    /\ ev.before.isConfigured
    /\ ev.ret = "true"
    /\ ev.writes = <<ev.data>>
    /\ ~usbState.isWriteComplete

\* C7: a call of cdc_usb_write with NULL or empty data, or on a session that
\* is not configured, returns false, submits no write and leaves
\* isWriteComplete as it was.
C7_RejectedWrites ==
    (ev.kind = "write" /\ (~ValidData(ev.data) \/ ~ev.before.isConfigured))
    => (/\ ev.ret = "false"
        /\ ev.writes = <<>>
        /\ usbState.isWriteComplete = ev.before.isWriteComplete
        /\ writesQueued = ev.before.writesQueued)

\* C7's case: valid data and no write outstanding, rejected because the
\* session is not configured after a reset
C7_Witness ==
    /\ ev.kind = "write"
    /\ ev.prev = "reset"
    /\ ValidData(ev.data)
    /\ ~ev.before.isConfigured
    /\ ev.before.isWriteComplete
    /\ ev.ret = "false"
    /\ ev.writes = <<>>
    /\ usbState.isWriteComplete

\* C8: every processed chunk calls USB_DEVICE_CDC_Read exactly once before the
\* handler returns.
C8_ReArm == Processed => ev.reads = 1

\* C8's case: a chunk that ended a line, the handler called, the next read queued
C8_Witness ==
    /\ Processed
    /\ EndsInTerminator(ev.chunk)
    /\ Len(ev.lines) = 1
    /\ ev.reads = 1
    /\ readsQueued = ev.before.readsQueued

\* C9: once armed and while configured, exactly one read is outstanding
\* between events.
C9_SingleOutstandingRead ==
    (usbState.isConfigured /\ armed) => readsQueued = 1

\* C10: a read completion that arrives right after a reset or a removal of
\* power changes neither the command buffer nor its length, calls no handler
\* and submits no read and no write.
C10_StaleCompletionNoOp ==
    (ev.kind = "read_complete" /\ ev.prev \in {"reset", "power_removed"})
    => (/\ commandBuffer = ev.before.commandBuffer
        /\ command_index = ev.before.command_index
        /\ ev.lines = <<>>
        /\ ev.ready = 0
        /\ ev.reads = 0
        /\ ev.writes = <<>>)

\* the last event was a read completion that reported an error
FailedRead ==
    ev.kind = "read_complete" /\ ev.status = USB_DEVICE_CDC_RESULT_ERROR

\* C11: a read completion with an error status leaves the command buffer and
\* its length as they were, calls no line handler and submits no write.
C11_FailedReadKeepsState ==
    FailedRead
    => (/\ commandBuffer = ev.before.commandBuffer
        /\ command_index = ev.before.command_index
        /\ ev.lines = <<>>
        /\ ev.writes = <<>>)

\* C11's case: the failed completion reports a byte, while the command buffer
\* holds a partial line, a line handler is registered and the write gate is open
C11_Witness ==
    /\ FailedRead
    /\ Len(ev.chunk) > 0
    /\ ev.before.command_index > 0
    /\ ev.before.return_line_callback # NullFn
    /\ GateWasOpen
    /\ command_index = ev.before.command_index
    /\ ev.writes = <<>>

\* C12: a read completion with an error status submits a new read.
C12_FailedReadReArms == FailedRead => ev.reads = 1

\* C13: after an event whose write submission the transport refused, the
\* write-outstanding flag is cleared; and whenever the flag is set a write is
\* queued whose completion will clear it.
C13_WriteFailureDoesNotBlock ==
    /\ (ev.writes # <<>> /\ ev.wres = USB_DEVICE_CDC_RESULT_ERROR)
        => usbState.isWriteComplete
    /\ ~usbState.isWriteComplete => writesQueued > 0

\* C14: the command buffer's length is between 0 and APP_READ_BUFFER_SIZE, and
\* every write into the command buffer, the NUL of a terminator included, is at
\* an index inside the buffer.
C14_CommandBufferBound ==
    /\ command_index \in 0..APP_READ_BUFFER_SIZE
    /\ ev.top < APP_READ_BUFFER_SIZE
    /\ Len(commandBuffer) <= APP_READ_BUFFER_SIZE

\* C14's case: a terminator arrives after more than APP_READ_BUFFER_SIZE plain
\* bytes were received without a terminator or a reset byte
C14_Witness ==
    /\ Processed
    /\ EndsInTerminator(ev.chunk)
    /\ Len(ev.before.accepted) > APP_READ_BUFFER_SIZE
    /\ ev.top >= 0
    /\ ev.top < APP_READ_BUFFER_SIZE

\* the last event was a configuration event with value 1
ConfiguredWithValue1 == ev.kind = "configured" /\ ev.chunk = <<1>>

\* C15 as stated: a configuration event with value 1 received while the
\* session is not configured sets isConfigured and submits no read.
C15_ConfigurationDoesNotArm ==
    (ConfiguredWithValue1 /\ ~ev.before.isConfigured)
    => (usbState.isConfigured /\ ev.reads = 0)

\* C15 amended: a configuration event with value 1 received while the session
\* is not configured sets isConfigured and, in the same event, runs
\* cdc_usb_initialize, which empties the command buffer and submits exactly
\* one read.
C15_ConfigurationArms ==
    (ConfiguredWithValue1 /\ ~ev.before.isConfigured)
    => (/\ usbState.isConfigured
        /\ ev.reads = 1
        /\ command_index = 0
        /\ readsQueued = ev.before.readsQueued
                         + (IF ev.rres = USB_DEVICE_CDC_RESULT_OK THEN 1 ELSE 0))

\* C15's case: the first configuration event, whose read the transport accepts
C15_Witness ==
    /\ ConfiguredWithValue1
    /\ ~ev.before.isConfigured
    /\ ev.before.readsQueued = 0
    /\ usbState.isConfigured
    /\ ev.reads = 1
    /\ readsQueued = 1

\* the last event tried to arm the console: a configuration event with value
\* 1, or a call of cdc_usb_initialize
ArmAttempt == ConfiguredWithValue1 \/ ev.kind = "initialize"

\* the session was configured when the attempt submitted its read
ConfiguredAtAttempt ==
    IF ev.kind = "initialize" THEN ev.before.isConfigured ELSE TRUE

\* C16: an attempt to arm a console that is not armed yet, with a ready handler
\* registered, calls the handler once if the session is configured and the
\* transport accepts the read, and not at all otherwise; after a refused read
\* the session is still configured.
C16_ReadyOnSuccessfulArm ==
    (ArmAttempt /\ ~ev.before.armed /\ ev.before.console_ready_callback # NullFn)
    => (/\ ev.ready = (IF ConfiguredAtAttempt /\ ev.rres = USB_DEVICE_CDC_RESULT_OK
                       THEN 1 ELSE 0)
        /\ (ConfiguredAtAttempt /\ ev.rres = USB_DEVICE_CDC_RESULT_ERROR)
            => usbState.isConfigured)

\* C17: cdc_usb_initialize returns true exactly when the session is configured
\* and the transport accepts the read; on a session that is not configured it
\* returns false and submits no read; in every case it empties the command
\* buffer.
C17_InitializeResult ==
    ev.kind = "initialize"
    => (/\ (ev.ret = "true")
            <=> (ev.before.isConfigured /\ ev.rres = USB_DEVICE_CDC_RESULT_OK)
        /\ ev.ret \in {"true", "false"}
        /\ ~ev.before.isConfigured => ev.reads = 0
        /\ ev.before.isConfigured => ev.reads = 1
        /\ command_index = 0
        /\ At(commandBuffer, 0) = 0)

\* C17's case: cdc_usb_initialize is called on a session that is not
\* configured while the command buffer holds a partial line
C17_Witness ==
    /\ ev.kind = "initialize"
    /\ ~ev.before.isConfigured
    /\ ev.before.command_index > 0
    /\ At(ev.before.commandBuffer, 0) # 0
    /\ ev.ret = "false"
    /\ ev.reads = 0
    /\ command_index = 0
    /\ At(commandBuffer, 0) = 0

\* C18: a reset or a removal of power leaves the session not configured; and
\* an event that begins on a session that is not configured, other than a
\* configuration event with value 1, submits no write, returns false if it is
\* a call of cdc_usb_write, and leaves the session not configured.
C18_ConfigurationLossClosesWrites ==
    /\ ev.kind \in {"reset", "power_removed"} => ~usbState.isConfigured
    /\ (ev.kind # "init" /\ ~ev.before.isConfigured /\ ~ConfiguredWithValue1)
        => (/\ ev.writes = <<>>
            /\ ev.kind = "write" => ev.ret = "false"
            /\ ~usbState.isConfigured)

\* C18's case: after a removal of power, with no write outstanding, the old
\* read completes with plain bytes and its echo is not submitted
C18_Witness ==
    /\ Processed
    /\ ev.prev = "power_removed"
    /\ FirstControl(ev.chunk) = 0
    /\ At(ev.chunk, 0) # 0
    /\ ev.before.isWriteComplete
    /\ ev.writes = <<>>
    /\ ~usbState.isConfigured

\* w is s or a sequence s begins with
IsPrefix(w, s) == Len(w) <= Len(s) /\ w = SubSeq(s, 1, Len(w))

NoControl(s) == \A i \in 1..Len(s) : ~IsControl(s[i])

\* C19: when a chunk's scan stops at a terminator, nothing is stored in the
\* command buffer behind the terminator's NUL and the buffer is left empty; the
\* line delivered is made of the plain bytes received before terminators only;
\* and the echo holds bytes from before the terminator only.
C19_TrailingBytesDiscarded ==
    (Processed /\ EndsInTerminator(ev.chunk))
    => (/\ command_index = 0
        /\ At(commandBuffer, 0) = 0
        /\ ev.top <= ev.before.command_index + Len(PlainPrefix(ev.chunk))
        /\ (ev.before.return_line_callback # NullFn /\ Len(Line) < Uint8Modulus
            /\ NoNul(Line)) => ev.lines = <<Line>>
        /\ \A k \in 1..Len(ev.writes) : IsPrefix(ev.writes[k], PlainPrefix(ev.chunk))
        /\ Len(ev.writes) <= 1)

\* C19's case: bytes follow the terminator in the chunk; the line handler gets
\* the bytes before it and the echo holds the bytes before it
C19_Witness ==
    /\ Processed
    /\ EndsInTerminator(ev.chunk)
    /\ FirstControl(ev.chunk) < Len(ev.chunk)
    /\ Len(PlainPrefix(ev.chunk)) > 0
    /\ ev.before.return_line_callback # NullFn
    /\ ev.lines = <<Line>>
    /\ GateWasOpen
    /\ ev.writes = <<PlainPrefix(ev.chunk)>>
    /\ command_index = 0

\* C20: a write submitted for a chunk whose scan stops at a reset byte is the
\* reset response; every other write submitted for a chunk holds no byte equal
\* to the terminator or to a reset byte.
C20_ControlBytesNotEchoed ==
    ev.kind = "read_complete"
    => \A k \in 1..Len(ev.writes) :
          IF EndsInReset(ev.chunk)
          THEN ev.writes[k] = CDC_USB_RESET_LINE_RESPONSE
          ELSE NoControl(ev.writes[k])

\* the plain bytes before the control byte of the last chunk, up to their
\* first NUL
EchoOfPrefix ==
    SubSeq(PlainPrefix(ev.chunk), 1, FirstNul(PlainPrefix(ev.chunk)))

\* C21 as stated: a chunk whose scan stops at a terminator submits no write.
C21_LineCompletedSendsNothing ==
    (Processed /\ EndsInTerminator(ev.chunk)) => ev.writes = <<>>

\* C21 amended: a chunk whose scan stops at a terminator submits, when the
\* write gate is open, one write of the plain bytes that precede the terminator
\* in the chunk (up to their first NUL) if there are any, and no write
\* otherwise; the terminator and what follows it are not sent.
C21_LineCompletedEchoesPrefix ==
    (Processed /\ EndsInTerminator(ev.chunk))
    => ev.writes = (IF GateWasOpen /\ EchoOfPrefix # <<>>
                    THEN <<EchoOfPrefix>> ELSE <<>>)

\* C21's case: a chunk of Uint8Modulus - 1 plain bytes and a terminator, with
\* the write gate open, is echoed without the terminator
C21_Witness ==
    /\ Processed
    /\ EndsInTerminator(ev.chunk)
    /\ GateWasOpen
    /\ Len(ev.chunk) = Uint8Modulus
    /\ ev.writes = <<PlainPrefix(ev.chunk)>>
    /\ ev.lines = <<PlainPrefix(ev.chunk)>>

\* C22: every byte of a chunk of plain bytes (any value but the terminator and
\* the reset bytes, here fewer than Uint8Modulus of them) is stored unchanged
\* in the command buffer behind the bytes it held, and with the write gate
\* open the write submitted for the chunk is the chunk.
C22_VerbatimBytes ==
    (Processed /\ FirstControl(ev.chunk) = 0 /\ Len(ev.chunk) < Uint8Modulus)
    => (/\ \A i \in 1..Len(ev.chunk) :
              At(commandBuffer,
                 (ev.before.command_index + i - 1) % Uint8Modulus) = ev.chunk[i]
        /\ GateWasOpen => ev.writes = <<ev.chunk>>)


\* the handlers the last event called, in the order of the calls
HandlerCalls ==
    SelectSeq(ev.calls, LAMBDA c : c \in LineHandlers \cup ReadyHandlers)

\* the calls an event makes through a slot that held the handler h
CallsThrough(h) == IF h = NullFn THEN <<>> ELSE <<h>>

\* C23: each slot holds the handler registered last, or none after an
\* unregistration or a registration of NULL; a completed line calls the handler
\* the line slot holds and no other, and none if the slot is empty, and the
\* command buffer is empty afterwards either way; a configuration event with
\* value 1 whose read the transport accepts calls the handler the ready slot
\* holds and no other.
C23_CallbackSlots ==
    /\ ev.kind = "register_line" => return_line_callback = ev.handler
    /\ ev.kind = "unregister_line" => return_line_callback = NullFn
    /\ ev.kind = "register_ready" => console_ready_callback = ev.handler
    /\ ev.kind = "unregister_ready" => console_ready_callback = NullFn
    /\ ev.kind \in {"register_line", "unregister_line"}
       => console_ready_callback = ev.before.console_ready_callback
    /\ ev.kind \in {"register_ready", "unregister_ready"}
       => return_line_callback = ev.before.return_line_callback
    /\ (Processed /\ EndsInTerminator(ev.chunk))
       => (/\ HandlerCalls = CallsThrough(ev.before.return_line_callback)
           /\ command_index = 0
           /\ At(commandBuffer, 0) = 0)
    /\ (ConfiguredWithValue1 /\ ev.rres = USB_DEVICE_CDC_RESULT_OK)
       => HandlerCalls = CallsThrough(ev.before.console_ready_callback)

\* C23's case: main's ReadLine is replaced by another handler, and the line
\* completed next is delivered to that handler alone
C23_Witness ==
    /\ nEvents = 2
    /\ ev.prev = "register_line"
    /\ Processed
    /\ EndsInTerminator(ev.chunk)
    /\ PlainPrefix(ev.chunk) # <<>>
    /\ ev.before.return_line_callback = "OtherLine"
    /\ HandlerCalls = <<"OtherLine">>
    /\ ~commandAvailable
    /\ command_index = 0


\* the line the last event handed to the line handler
Delivered == ev.lines[1]

\* the string the pointer handed to the line handler refers to: the handler
\* is called with commandBuffer itself
HandedLine == CStr(commandBuffer, APP_READ_BUFFER_SIZE, <<>>)

\* C24 as stated: once the handler has returned and the command buffer has
\* been reset, the line handed to the handler still equals the completed line.
C24_HandedLineSurvivesReset ==
    ev.lines # <<>> => HandedLine = Delivered

\* C24 amended: the handler is handed the command buffer itself, so the line
\* it is handed is valid while the handler runs only: once the handler has
\* returned and the buffer has been reset, the buffer handed is empty; the
\* copy main's ReadLine takes of a non-empty line equals the line handed after
\* the reset, and no later event changes the copy except the delivery of
\* another line to ReadLine.
C24_HandedLineValidDuringCall ==
    /\ [](ev.lines # <<>>
          => (/\ HandedLine = <<>>
              /\ command_index = 0
              /\ (ev.before.return_line_callback = "ReadLine" /\ Delivered # <<>>)
                 => (commandAvailable
                     /\ CStr(command, APP_READ_BUFFER_SIZE, <<>>) = Delivered)))
    /\ [][command' # command
          => (ev'.lines # <<>> /\ ev'.before.return_line_callback = "ReadLine")]_vars

\* C24's case: a non-empty line was delivered to ReadLine, the handler has
\* returned and the buffer has been reset: the buffer the handler was handed
\* is empty, ReadLine's copy holds the line
C24_Witness ==
    /\ Processed
    /\ ev.lines # <<>>
    /\ Len(Delivered) > 1
    /\ ev.before.return_line_callback = "ReadLine"
    /\ ev.before.command_index > 0
    /\ HandedLine = <<>>
    /\ CStr(command, APP_READ_BUFFER_SIZE, <<>>) = Delivered


\* C25: at most one transport write is in flight in every reachable state: a
\* write is in flight only while isWriteComplete is clear, and an event that
\* begins with a write in flight submits none.
C25_SingleOutstandingWrite ==
    /\ writesQueued <= 1
    /\ writesQueued = 1 => ~usbState.isWriteComplete
    /\ Len(ev.writes) <= 1
    /\ (ev.before.writesQueued = 1 /\ ev.kind # "init") => ev.writes = <<>>

\* C25's case: while the write of an application call is in flight a chunk of
\* plain bytes is processed; its echo is not submitted and one write stays in
\* flight
C25_Witness ==
    /\ Processed
    /\ ev.prev = "write"
    /\ FirstControl(ev.chunk) = 0
    /\ NoNul(ev.chunk)
    /\ ev.before.isConfigured
    /\ ev.before.writesQueued = 1
    /\ ev.writes = <<>>
    /\ writesQueued = 1


\* the bytes a processed chunk may transmit: the reset response, or plain
\* bytes of this chunk from its start (a chunk that fills the read buffer is
\* echoed with what lies behind receivedBuffer, see C4)
OwnBytes(w) ==
    \/ w = CDC_USB_RESET_LINE_RESPONSE
    \/ IsPrefix(w, PlainPrefix(ev.chunk))
    \/ (Len(ev.chunk) = APP_READ_BUFFER_SIZE /\ IsPrefix(ev.chunk, w))

\* C26: a processed chunk that finds the write gate closed submits no write
\* and leaves the write queue as it was, and its plain bytes are appended to
\* the command buffer all the same; a write completion submits nothing; and
\* whatever a later chunk transmits is made of that chunk's own bytes or is
\* the reset response, so the bytes dropped are in no later echo.
C26_DroppedEchoNotRetried ==
    /\ (Processed /\ ~GateWasOpen)
       => (/\ ev.writes = <<>>
           /\ writesQueued = ev.before.writesQueued
           /\ usbState.isWriteComplete = ev.before.isWriteComplete
           /\ \A i \in 1..Len(PlainPrefix(ev.chunk)) :
                  (FirstControl(ev.chunk) = 0 /\ Len(ev.chunk) < Uint8Modulus)
                  => At(commandBuffer, (ev.before.command_index + i - 1) % Uint8Modulus)
                     = ev.chunk[i]
           /\ FirstControl(ev.chunk) = 0
              => command_index = (ev.before.command_index + Len(ev.chunk)) % Uint8Modulus)
    /\ ev.kind = "write_complete" => (ev.writes = <<>> /\ ev.calls = <<>>)
    /\ Processed => \A k \in 1..Len(ev.writes) : OwnBytes(ev.writes[k])

\* C26's case: the echo of the first chunk, of plain bytes, was dropped while
\* the menu was in flight, the menu's write completed, and the next plain
\* chunk, of other bytes, is echoed alone although the dropped bytes are still
\* in the command buffer
C26_Witness ==
    /\ nEvents = 3
    /\ ev.prev = "write_complete"
    /\ Processed
    /\ GateWasOpen
    /\ FirstControl(ev.chunk) = 0
    /\ ev.before.accepted # <<>>
    /\ NoNul(ev.before.accepted)
    /\ ev.before.command_index = Len(ev.before.accepted)
    /\ \A i \in 1..Len(ev.before.accepted) : ev.before.accepted[i] # ev.chunk[1]
    /\ ev.writes = <<ev.chunk>>
    /\ command_index = Len(ev.before.accepted) + Len(ev.chunk)


\* C27: when a configuration event with value 1 has been handled the command
\* buffer is empty, index 0 and an empty string, whatever it held, and the
\* event delivers no line; a line delivered afterwards (here shorter than the
\* index's range) is made of the plain bytes received since, up to its first
\* NUL.
C27_NoPartialCommandSurvives ==
    /\ ConfiguredWithValue1
       => (/\ command_index = 0
           /\ At(commandBuffer, 0) = 0
           /\ HandedLine = <<>>
           /\ ev.lines = <<>>)
    /\ (ev.lines # <<>> /\ Len(Line) < Uint8Modulus)
       => Delivered = SubSeq(Line, 1, FirstNul(Line))

\* C27's case: a configuration event with value 1 arrives on a configured
\* session while two or more plain bytes of a partial command are in the
\* buffer; the buffer is empty afterwards although bytes of the partial command
\* are still behind its first byte
C27_Witness ==
    /\ ConfiguredWithValue1
    /\ ev.before.isConfigured
    /\ ev.before.command_index > 1
    /\ ev.before.accepted # <<>>
    /\ NoNul(ev.before.accepted)
    /\ command_index = 0
    /\ At(commandBuffer, 0) = 0
    /\ At(commandBuffer, 1) = ev.before.accepted[2]


\* C28: the line handler is called only by a successful read completion of
\* one byte or more whose scan stops at a terminator, and once by such an event
\* when a handler is registered; a chunk whose scan stops at a reset byte or
\* that holds plain bytes only, a failed or empty read completion, and every
\* event of another kind call no line handler.
C28_LinesOnlyOnCompletion ==
    /\ ev.lines # <<>> => (Processed /\ EndsInTerminator(ev.chunk))
    /\ Len(ev.lines) = Len(SelectSeq(ev.calls, LAMBDA c : c \in LineHandlers))
    /\ (Processed /\ EndsInTerminator(ev.chunk))
       => Len(ev.lines) = (IF ev.before.return_line_callback = NullFn THEN 0 ELSE 1)
    /\ (Processed /\ (EndsInReset(ev.chunk) \/ FirstControl(ev.chunk) = 0))
       => ev.lines = <<>>
    /\ (ev.kind = "read_complete"
        /\ (ev.status = USB_DEVICE_CDC_RESULT_ERROR \/ Len(ev.chunk) = 0))
       => ev.lines = <<>>
    /\ ev.kind # "read_complete" => ev.lines = <<>>

\* C28's case: plain bytes, then a break request, then a chunk with a
\* terminator in its middle: that chunk calls the handler once
C28_Witness ==
    /\ ev.prev = "send_break"
    /\ ev.before.command_index > 0
    /\ Processed
    /\ EndsInTerminator(ev.chunk)
    /\ Len(ev.chunk) > Len(PlainPrefix(ev.chunk)) + 1
    /\ Len(ev.lines) = 1
    /\ HandlerCalls = <<ev.before.return_line_callback>>
    /\ command_index = 0


\* C29: a processed chunk makes its calls in this order: the line handler, if
\* the scan stopped at a terminator and a handler is registered; then
\* USB_DEVICE_CDC_Read, once; then USB_DEVICE_CDC_Write, if the gate admits an
\* echo or acknowledgement. The read is submitted whether the write is
\* refused by the gate, refused by the transport, or not attempted.
C29_OrderOfEffects ==
    Processed
    => (/\ ev.calls =
              (IF EndsInTerminator(ev.chunk)
               THEN CallsThrough(ev.before.return_line_callback) ELSE <<>>)
              \o <<"USB_DEVICE_CDC_Read">>
              \o (IF ev.writes # <<>> THEN <<"USB_DEVICE_CDC_Write">> ELSE <<>>)
        /\ ev.reads = 1
        /\ readsQueued = ev.before.readsQueued - 1
                         + (IF ev.rres = USB_DEVICE_CDC_RESULT_OK THEN 1 ELSE 0))

\* C29's case: a chunk of plain bytes and a terminator with the gate open:
\* ReadLine, then the read, then the echo, which the transport refuses
C29_Witness ==
    /\ Processed
    /\ EndsInTerminator(ev.chunk)
    /\ GateWasOpen
    /\ ev.wres = USB_DEVICE_CDC_RESULT_ERROR
    /\ ev.calls = <<"ReadLine", "USB_DEVICE_CDC_Read", "USB_DEVICE_CDC_Write">>
    /\ ev.writes = <<PlainPrefix(ev.chunk)>>
    /\ readsQueued = 1


\* the byte at index j of the command buffer was stored by the last chunk's
\* scan from one of the plain bytes before the chunk's first control byte
StoredFromPrefix(j) ==
    \E i \in 1..Len(PlainPrefix(ev.chunk)) :
        /\ j = (ev.before.command_index + i - 1) % Uint8Modulus
        /\ At(commandBuffer, j) = ev.chunk[i]

\* C30: when a chunk's scan stops at a reset byte, the command buffer's length
\* is 0, the only bytes the chunk changed in the buffer are stored from the
\* plain bytes before the reset byte, no line is delivered, and nothing but
\* the reset response is transmitted; and a line delivered later (here shorter
\* than the index's range) is made of the plain bytes received after the reset
\* byte's chunk, up to its first NUL.
C30_ResetStopsScan ==
    /\ (Processed /\ EndsInReset(ev.chunk))
       => (/\ command_index = 0
           /\ \A j \in 0..(APP_READ_BUFFER_SIZE - 1) :
                  At(commandBuffer, j) # At(ev.before.commandBuffer, j)
                  => StoredFromPrefix(j)
           /\ ev.lines = <<>>
           /\ Len(ev.writes) <= 1
           /\ \A k \in 1..Len(ev.writes) : ev.writes[k] = CDC_USB_RESET_LINE_RESPONSE)
    /\ (ev.lines # <<>> /\ Len(Line) < Uint8Modulus)
       => (/\ Delivered = SubSeq(Line, 1, FirstNul(Line))
           /\ ev.before.accepted = <<>>
              => IsPrefix(Delivered, PlainPrefix(ev.chunk)))

\* C30's case: the first chunk held plain bytes and then a reset byte, so its
\* plain bytes are left in the buffer at index 0 and behind; the second chunk
\* completes a line, which holds the second chunk's plain bytes only
C30_Witness ==
    /\ nEvents = 2
    /\ ev.prev = "read_complete"
    /\ Processed
    /\ EndsInTerminator(ev.chunk)
    /\ ev.before.command_index = 0
    /\ At(ev.before.commandBuffer, 0) # 0
    /\ Len(ev.before.commandBuffer) > Len(PlainPrefix(ev.chunk))
    /\ PlainPrefix(ev.chunk) # <<>>
    /\ ev.lines = <<PlainPrefix(ev.chunk)>>


\* C31: a line assembled across chunks: plain bytes (here without NUL) were
\* accepted in earlier chunks since the last clear, the chunk brings its own
\* plain bytes and a terminator, and fewer than APP_READ_BUFFER_SIZE bytes
\* were accepted in all: the registered line handler is handed their
\* concatenation in arrival order.
C31_AssemblyAcrossChunks ==
    (/\ Processed
     /\ EndsInTerminator(ev.chunk)
     /\ ev.before.return_line_callback # NullFn
     /\ ev.before.accepted # <<>>
     /\ Len(Line) < APP_READ_BUFFER_SIZE
     /\ NoNul(Line))
    => (ev.lines = <<ev.before.accepted \o PlainPrefix(ev.chunk)>>)


\* C32: a chunk that begins with a terminator, processed while the command
\* buffer's length is 0 and a line handler is registered, calls that handler
\* once, with the empty string, leaves the buffer empty, submits one read and
\* submits no write.
C32_EmptyLineDelivery ==
    (/\ Processed
     /\ ev.chunk[1] = CDC_USB_LINE_TERMINATOR
     /\ ev.before.command_index = 0
     /\ ev.before.return_line_callback # NullFn)
    => (/\ ev.lines = << <<>> >>
        /\ HandlerCalls = <<ev.before.return_line_callback>>
        /\ command_index = 0
        /\ At(commandBuffer, 0) = 0
        /\ ev.reads = 1
        /\ ev.writes = <<>>
        /\ writesQueued = ev.before.writesQueued)

\* C32's case: a reset byte has left bytes in the buffer at index 0, the write
\* gate is open, and a terminator arrives: the handler is handed the empty
\* string and nothing is written
C32_Witness ==
    /\ Processed
    /\ ev.chunk = <<CDC_USB_LINE_TERMINATOR>>
    /\ ev.before.command_index = 0
    /\ At(ev.before.commandBuffer, 0) # 0
    /\ ev.before.return_line_callback = "ReadLine"
    /\ GateWasOpen
    /\ ev.lines = << <<>> >>
    /\ ev.calls = <<"ReadLine", "USB_DEVICE_CDC_Read">>
    /\ ev.writes = <<>>


\* C33: whenever the console-ready handler is called no write is marked
\* outstanding, and the menu that main's ConsoleReady writes is submitted.
C33_GateOpenWhenReady ==
    ev.ready > 0
    => (/\ ev.before.isWriteComplete
        /\ ev.before.console_ready_callback = "ConsoleReady"
           => ev.writes = <<consoleMenu>>)


\* C34: a call of cdc_usb_write that returns false leaves cdcWriteBuffer as it
\* was, and while a write is in flight no event but its completion changes
\* cdcWriteBuffer.
C34_InFlightWriteIntact ==
    /\ [][(ev'.kind = "write" /\ ev'.ret = "false")
          => cdcWriteBuffer' = cdcWriteBuffer]_vars
    /\ [][(writesQueued > 0 /\ ev'.kind # "write_complete")
          => cdcWriteBuffer' = cdcWriteBuffer]_vars


\* C35: a configuration event whose value is not 1 changes none of the
\* globals (isConfigured, the transfer flags, the buffers, the command index,
\* the handlers) and neither transfer queue, and makes no call: no read, no
\* write, no handler.
C35_UnsupportedConfigurationIgnored ==
    [][(ev'.kind = "configured" /\ ev'.chunk # <<1>>)
       => (/\ Machine' = Machine
           /\ ev'.calls = <<>>
           /\ ev'.reads = 0
           /\ ev'.writes = <<>>
           /\ ev'.ready = 0
           /\ ev'.lines = <<>>)]_vars

\* C35's case: after a reset, with a partial command in the buffer and a ready
\* handler registered, a configuration event with value 2 arrives: the session
\* stays unconfigured, the partial command stays, nothing is called
C35_Witness ==
    /\ ev.kind = "configured"
    /\ ev.chunk = <<2>>
    /\ ev.prev = "reset"
    /\ ev.before.console_ready_callback # NullFn
    /\ ev.before.command_index > 0
    /\ ~usbState.isConfigured
    /\ command_index = ev.before.command_index
    /\ commandBuffer = ev.before.commandBuffer
    /\ ev.calls = <<>>


\* C36: a set-control-line-state event changes only the stored dtr and
\* carrier, to the values sent, and a send-break event changes only the stored
\* break duration; all other globals (isConfigured, the transfer flags, the
\* buffers, the command index, the handlers) and both transfer queues stay as
\* they were, and the only call made is the status stage of the control
\* transfer: no data read, no data write, no handler.
C36_ControlEventsStateLocal ==
    /\ [][ev'.kind = "control_line_state"
          => (/\ Machine' = [Machine EXCEPT !.usbState.controlLineStateData =
                                [dtr |-> ev'.chunk[1], carrier |-> ev'.chunk[2]]]
              /\ ev'.calls = <<"USB_DEVICE_ControlStatus">>
              /\ ev'.reads = 0 /\ ev'.writes = <<>>
              /\ ev'.lines = <<>> /\ ev'.ready = 0)]_vars
    /\ [][ev'.kind = "send_break"
          => (/\ Machine' = [Machine EXCEPT !.usbState.breakData = ev'.chunk[1]]
              /\ ev'.calls = <<"USB_DEVICE_ControlStatus">>
              /\ ev'.reads = 0 /\ ev'.writes = <<>>
              /\ ev'.lines = <<>> /\ ev'.ready = 0)]_vars

\* C36's case: a break request arrives while a partial command is in the
\* buffer, a read and a write are in flight and handlers are registered; the
\* duration is stored and the rest is as before
C36_Witness ==
    /\ ev.kind = "send_break"
    /\ usbState.breakData = ev.chunk[1]
    /\ usbState.breakData # 0
    /\ ev.before.command_index > 0
    /\ command_index = ev.before.command_index
    /\ ev.before.return_line_callback # NullFn
    /\ readsQueued = 1
    /\ writesQueued = 1
    /\ ~usbState.isWriteComplete
    /\ ev.calls = <<"USB_DEVICE_ControlStatus">>


\* C37: every non-empty line handed to ReadLine is passed to DecodeCommand
\* exactly once, with its own text, in delivery order: the commands decoded so
\* far are the first of the lines delivered so far, and when no command is
\* waiting for the main loop all lines delivered have been decoded.
C37_HandOff ==
    /\ IsPrefix(decoded, delivered)
    /\ ~commandAvailable => decoded = delivered

\* C38: an iteration of the main loop that calls DecodeCommand with a
\* non-empty command submits the command's response text to the transport.
C38_CommandAnswered ==
    (ev.kind = "main_loop" /\ ValidData(ev.data))
    => ev.writes = <<ResponseText(CStr(ev.data, APP_READ_BUFFER_SIZE, <<>>))>>

=============================================================================
